---- MODULE Spec2Model ----
(***************************************************************************)
(* VideoBarcode: BarcodeMaker.makeBarcode of main.py as a state machine.   *)
(*                                                                         *)
(* One behaviour is one call of makeBarcode.  The arguments and the video  *)
(* file (whether it opens, its frame count, its native frame height) are   *)
(* drawn in Init; whether a read of the video succeeds is drawn at the     *)
(* read.  Python floats are IEEE-754 binary64 values: the sampling         *)
(* position is computed with correctly rounded division and addition,      *)
(* modelled on limbs, because TLC integers are 32 bits wide.               *)
(*                                                                         *)
(* Argument domain: width and height are positive, blur is non-negative;   *)
(* nFrames ranges over valid and invalid values.                           *)
(***************************************************************************)
EXTENDS Integers, Sequences, FiniteSets, TLC

(***************************************************************************)
(* Bounds of the model.                                                    *)
(***************************************************************************)
MaxTotal == 8
MaxWidth == 2
MaxHeight == 2
MaxBlur == 3

\* Significand width of a Python float (binary64).
Precision == 53

(***************************************************************************)
(* Python values.                                                          *)
(***************************************************************************)
\* None is the empty tuple, a present value x is <<x>>.
None == <<>>
Some(x) == <<x>>
ValueOf(o) == o[1]

(***************************************************************************)
(* binary64 arithmetic on the values the program computes.  A float x is   *)
(* the tuple <<ip, f1, f2, f3>>: its integer part and Precision + 1        *)
(* fractional bits in three limbs of LimbBits bits,                        *)
(*   x = ip + f1 / 2^LimbBits + f2 / 2^(2 LimbBits) + f3 / 2^(3 LimbBits). *)
(* Every binary64 value in [1/2, 2^(LimbBits - 1)) is such a tuple; the    *)
(* operations below round to Precision significant bits, ties to even, as  *)
(* the hardware does.                                                      *)
(***************************************************************************)
LimbBits == (Precision + 1) \div 3

RECURSIVE Pow2(_)
Pow2(k) == IF k = 0 THEN 1 ELSE 2 * Pow2(k - 1)

Base == Pow2(LimbBits)

\* The number of bits of the non-negative integer v.
RECURSIVE BitLen(_)
BitLen(v) == IF v = 0 THEN 0 ELSE 1 + BitLen(v \div 2)

\* Carry the limbs of <<ip, f1, f2, f3>> back into 0..Base-1.
Normalize(x) ==
  LET c3 == x[4] \div Base
      s2 == x[3] + c3
      c2 == s2 \div Base
      s1 == x[2] + c2
      c1 == s1 \div Base
  IN  <<x[1] + c1, s1 % Base, s2 % Base, x[4] % Base>>

\* Round to Precision significant bits, ties to even.  sticky: the exact
\* value has non-zero bits below the last limb.
RoundNearestEven(x, sticky) ==
  LET d     == BitLen(x[1]) + 1            \* fractional bits to drop
      unit  == Pow2(d)
      low   == x[4] % unit
      guard == low \div (unit \div 2)
      below == sticky \/ (low % (unit \div 2)) # 0
      odd   == (x[4] \div unit) % 2 = 1
      kept  == <<x[1], x[2], x[3], x[4] - low>>
  IN  IF guard = 1 /\ (below \/ odd)
      THEN Normalize(<<x[1], x[2], x[3], x[4] - low + unit>>)
      ELSE kept

\* float(v) for a small non-negative integer v: exact.
FromInt(v) == <<v, 0, 0, 0>>

\* Python: t / n for the float t and the int n, both integral, 0 <= t, 1 <= n.
FloatDiv(t, n) ==
  LET r0 == t % n
      f1 == (r0 * Base) \div n
      r1 == (r0 * Base) % n
      f2 == (r1 * Base) \div n
      r2 == (r1 * Base) % n
      f3 == (r2 * Base) \div n
      r3 == (r2 * Base) % n
  IN  RoundNearestEven(<<t \div n, f1, f2, f3>>, r3 # 0)

\* Python: x / 2.  Exact for x >= 1, whose last fractional bit is 0.
FloatHalf(x) ==
  <<x[1] \div 2,
    (x[1] % 2) * (Base \div 2) + x[2] \div 2,
    (x[2] % 2) * (Base \div 2) + x[3] \div 2,
    (x[3] % 2) * (Base \div 2) + x[4] \div 2>>

\* Python: x + y.
FloatAdd(x, y) ==
  RoundNearestEven(Normalize(<<x[1] + y[1], x[2] + y[2], x[3] + y[3], x[4] + y[4]>>), FALSE)

\* Python: int(x) for a non-negative float x: truncation.
FloatToInt(x) == x[1]

(***************************************************************************)
(* Images (cv2 / numpy).  An image is its height and its pixel columns,    *)
(* left to right; a column of a resized frame is named by the frame it     *)
(* comes from and its place in the slice.                                  *)
(***************************************************************************)
NoImage == [kind |-> "None"]

\* A decoded frame: video.read() at frame index idx of a video of native height h.
Frame(idx, h) == [kind |-> "image", h |-> h, cols |-> <<<<idx, 0>>>>]

\* cv2.resize(image, (width, height))
Resize(image, w, h) ==
  [kind |-> "image", h |-> h, cols |-> [c \in 1..w |-> <<image.cols[1][1], c>>]]

\* Mutant of HConcat: the new slice goes on the left.
HConcatReversed(left, right) ==
  [kind |-> "image", h |-> left.h, cols |-> right.cols \o left.cols]

\* cv2.hconcat([left, right]): the images side by side (equal heights).
HConcat(left, right) ==
  [kind |-> "image", h |-> left.h, cols |-> left.cols \o right.cols]

\* cv2.filter2D(image, -1, kernel): the library's correlation of image with kernel.
Filter2D(image, kernel) == [kind |-> "filtered", src |-> image, kernel |-> kernel]

\* numpy.zeros((rows, cols))
Zeros(rows, cols) == [r \in 1..rows |-> [c \in 1..cols |-> 0]]

\* kernel[:, col] = numpy.ones(amount), col counted from 0
SetColumn(kernel, col) ==
  [r \in DOMAIN kernel |-> [c \in DOMAIN kernel[r] |-> IF c = col + 1 THEN 1 ELSE kernel[r][c]]]

\* kernel /= amount: every entry e becomes the fraction e / amount, <<e, amount>>
DivideBy(kernel, amount) ==
  [r \in DOMAIN kernel |-> [c \in DOMAIN kernel[r] |-> <<kernel[r][c], amount>>]]

\* Mutant of KernelColumn: the column is amount / 2.
KernelColumnNoMinusOne(amount) == FloatToInt(FloatHalf(FromInt(amount)))

\* int((amount - 1) / 2): true division, then truncation; amount >= 1
KernelColumn(amount) == FloatToInt(FloatHalf(FromInt(amount - 1)))

\* BarcodeMaker.addBlur
addBlur(image, amount) ==
  Filter2D(image, DivideBy(SetColumn(Zeros(amount, amount), KernelColumn(amount)), amount))

(***************************************************************************)
(* The arguments of makeBarcode and the video file.                        *)
(***************************************************************************)
\* nFrames: an int or a float, kept as twice its value (floats may be halves).
IntArg(v) == [isInt |-> TRUE, twice |-> 2 * v]
FloatArg(twice) == [isInt |-> FALSE, twice |-> twice]

NFramesArgs ==
  {IntArg(v) : v \in (-1..(MaxTotal + 1)) \cup {101}} \cup {FloatArg(t) : t \in {1, 4, 5}}

\* Frame counts the video may report (CAP_PROP_FRAME_COUNT).
FrameCounts == (0..MaxTotal) \cup {100}

VARIABLES
  canOpen,          \* the file at source opens as a video
  frameCount,       \* the video's frame count
  frameHeight,      \* the native height of the video's frames
  nFrames, blur, width, height,    \* arguments (height: None or <<h>>)
  pc,               \* position in makeBarcode
  opened,           \* the VideoCapture holds an open handle
  cursor,           \* the video's read position (CAP_PROP_POS_FRAMES)
  calls,            \* the calls made on the video, in order
  totalFrames, interval,           \* locals of makeBarcode (None until set)
  completedFrames, nextFrame, output,
  result,           \* the value returned
  error             \* the exception raised

vars == <<canOpen, frameCount, frameHeight, nFrames, blur, width, height, pc, opened,
          cursor, calls, totalFrames, interval, completedFrames, nextFrame, output,
          result, error>>

args == <<canOpen, frameCount, frameHeight, nFrames, blur, width>>

NoError == [kind |-> "None"]

Init ==
  /\ canOpen \in BOOLEAN
  /\ frameCount \in FrameCounts
  /\ frameHeight \in 1..MaxHeight
  /\ nFrames \in NFramesArgs
  /\ blur \in 0..MaxBlur
  /\ width \in 1..MaxWidth
  /\ height \in {None} \cup {Some(h) : h \in 1..MaxHeight}
  /\ pc = "getVideoFile"
  /\ opened = FALSE
  /\ cursor = 0
  /\ calls = <<>>
  /\ totalFrames = None
  /\ interval = None
  /\ completedFrames = 0
  /\ nextFrame = None
  /\ output = NoImage
  /\ result = NoImage
  /\ error = NoError

\* raise: the call ends with the exception e
Raise(e) == pc' = "raised" /\ error' = e

\* The int value of nFrames once it is known to be an int.
N == nFrames.twice \div 2

\* The type of the value video.get() returns: a Python float.
TotalFramesType == "float"

\* The exception a raise of kind with the message "text" + operand ends in:
\* str + str builds the message; str + anything else is a TypeError.
RaiseWithMessage(kind, operandType) ==
  IF operandType = "str" THEN [kind |-> kind] ELSE [kind |-> "TypeError"]

\* Mutant of IsOpened: the check is dropped.
IsOpenedUnchecked == TRUE

\* video.isOpened() after cv2.VideoCapture(source)
IsOpened == canOpen

\* Mutant of InvalidNFrames: the type is not checked.
InvalidNFramesNoTypeCheck(n) == n.twice < 2

\* nFrames < 1 or not isinstance(nFrames, int)
InvalidNFrames(n) == n.twice < 2 \/ ~n.isInt

\* nFrames > totalFrames
ExceedsTotal(n, total) == n.twice > 2 * total

\* Mutant of LoopDone: the loop runs one iteration more.
LoopDoneOffByOne == completedFrames = N + 1

\* completedFrames == nFrames
LoopDone == completedFrames = N

\* Mutant of SetPosFrames: the seek is relative to the cursor.
SetPosFramesRelative(cur, idx) == cur + idx

\* video.set(cv2.CAP_PROP_POS_FRAMES, idx): the cursor after the call
SetPosFrames(cur, idx) == idx

\* Mutant of DecodeError: the frame is reported counting from 1.
DecodeErrorOneBased(pos, total) ==
  [kind |-> "IOError", frame |-> Some(FloatToInt(pos) + 1), total |-> total]

\* IOError("Cannot read from video file at frame " + str(int(nextFrame))
\*         + " out of " + str(totalFrames))
DecodeError(pos, total) ==
  [kind |-> "IOError", frame |-> Some(FloatToInt(pos)), total |-> total]

\* video.read(): the frame at the cursor, if it decodes; the cursor advances.
\* No frame lies at or after frameCount.
CanDecode(valid) == valid => cursor < frameCount

(***************************************************************************)
(* makeBarcode, step by step.                                              *)
(***************************************************************************)
\* line 41: video = self.getVideoFile(source)
GetVideoFile ==
  /\ pc = "getVideoFile"
  /\ IF IsOpened
     THEN /\ opened' = TRUE
          /\ pc' = "getInterval"
          /\ UNCHANGED error
     ELSE /\ Raise([kind |-> "FileNotFoundError"])
          /\ UNCHANGED opened
  /\ UNCHANGED <<args, height, cursor, calls, totalFrames, interval, completedFrames,
                 nextFrame, output, result>>

\* line 43: interval, totalFrames = self.getInterval(video, nFrames)
GetInterval ==
  /\ pc = "getInterval"
  /\ calls' = Append(calls, <<"get">>)
  /\ IF InvalidNFrames(nFrames)
     THEN /\ Raise([kind |-> "ValueError"])
          /\ UNCHANGED <<totalFrames, interval>>
     ELSE IF ExceedsTotal(nFrames, frameCount)
     THEN /\ Raise(RaiseWithMessage("ValueError", TotalFramesType))
          /\ UNCHANGED <<totalFrames, interval>>
     ELSE /\ totalFrames' = Some(frameCount)
          /\ interval' = FloatDiv(frameCount, N)
          /\ pc' = IF height = None THEN "getHeight" ELSE "initLoop"
          /\ UNCHANGED error
  /\ UNCHANGED <<args, height, opened, cursor, completedFrames, nextFrame, output, result>>

\* lines 45-46: height = self.getHeight(video)
GetHeight ==
  /\ pc = "getHeight"
  /\ \E valid \in BOOLEAN :
       /\ CanDecode(valid)
       /\ calls' = Append(calls, <<"read", cursor, valid>>)
       /\ IF valid
          THEN /\ cursor' = cursor + 1
               /\ height' = Some(Frame(cursor, frameHeight).h)
               /\ pc' = "initLoop"
               /\ UNCHANGED error
          ELSE /\ Raise([kind |-> "IOError", frame |-> None, total |-> None])
               /\ UNCHANGED <<cursor, height>>
  /\ UNCHANGED <<args, opened, totalFrames, interval, completedFrames, nextFrame,
                 output, result>>

\* lines 48-50: completedFrames = 0; nextFrame = interval / 2; output = None
InitLoop ==
  /\ pc = "initLoop"
  /\ completedFrames' = 0
  /\ nextFrame' = FloatHalf(interval)
  /\ output' = NoImage
  /\ pc' = "loop"
  /\ UNCHANGED <<args, height, opened, cursor, calls, totalFrames, interval, result, error>>

\* lines 58-62: the loop goes on; video.set(cv2.CAP_PROP_POS_FRAMES, int(nextFrame))
Seek ==
  /\ pc = "loop"
  /\ ~LoopDone
  /\ cursor' = SetPosFrames(cursor, FloatToInt(nextFrame))
  /\ calls' = Append(calls, <<"set", FloatToInt(nextFrame)>>)
  /\ pc' = "read"
  /\ UNCHANGED <<args, height, opened, totalFrames, interval, completedFrames, nextFrame,
                 output, result, error>>

\* lines 64-77: read the frame, append its slice, advance
ReadFrame ==
  /\ pc = "read"
  /\ \E valid \in BOOLEAN :
       /\ CanDecode(valid)
       /\ calls' = Append(calls, <<"read", cursor, valid>>)
       /\ IF valid
          THEN /\ cursor' = cursor + 1
               /\ output' = IF output = NoImage
                            THEN Resize(Frame(cursor, frameHeight), width, ValueOf(height))
                            ELSE HConcat(output, Resize(Frame(cursor, frameHeight), width,
                                                        ValueOf(height)))
               /\ completedFrames' = completedFrames + 1
               /\ nextFrame' = FloatAdd(nextFrame, interval)
               /\ pc' = "loop"
               /\ UNCHANGED error
          ELSE /\ Raise(DecodeError(nextFrame, totalFrames))
               /\ UNCHANGED <<cursor, output, completedFrames, nextFrame>>
  /\ UNCHANGED <<args, height, opened, totalFrames, interval, result>>

\* lines 58-59 and 85: the loop breaks; video.release()
Release ==
  /\ pc = "loop"
  /\ LoopDone
  /\ calls' = Append(calls, <<"release">>)
  /\ opened' = FALSE
  /\ pc' = "blur"
  /\ UNCHANGED <<args, height, cursor, totalFrames, interval, completedFrames, nextFrame,
                 output, result, error>>

\* lines 88-93: blur if asked, return
Return ==
  /\ pc = "blur"
  /\ result' = IF blur # 0 THEN addBlur(output, blur) ELSE output
  /\ pc' = "returned"
  /\ UNCHANGED <<args, height, opened, cursor, calls, totalFrames, interval,
                 completedFrames, nextFrame, output, error>>

Next ==
  \/ GetVideoFile
  \/ GetInterval
  \/ GetHeight
  \/ InitLoop
  \/ Seek
  \/ ReadFrame
  \/ Release
  \/ Return

Spec == Init /\ [][Next]_vars

\* A running call always takes its next step.
FairSpec == Spec /\ WF_vars(Next)

Terminated == pc \in {"returned", "raised"}

(***************************************************************************)
(* What the calls made on the video say about a run.                       *)
(***************************************************************************)
IsSet(c) == c[1] = "set"
IsRead(c) == c[1] = "read"
IsRelease(c) == c[1] = "release"

\* The seeks of the main loop, in order.
Seeks == SelectSeq(calls, IsSet)

\* The position in calls of the first seek (past the end if there is none).
FirstSet ==
  IF \E i \in 1..Len(calls) : IsSet(calls[i])
  THEN CHOOSE i \in 1..Len(calls) : IsSet(calls[i]) /\ \A j \in 1..(i - 1) : ~IsSet(calls[j])
  ELSE Len(calls) + 1

\* The calls of the main loop and after it.
LoopCalls == SubSeq(calls, FirstSet, Len(calls))

\* The reads of the main loop, in order.
LoopReads == SelectSeq(LoopCalls, IsRead)

\* getHeight read a frame to infer the height (height was omitted).
ProbeDone == Len(calls) >= 2 /\ IsRead(calls[2]) /\ calls[2][3]

\* No seek and no read was made on the video.
NoDecoding == \A i \in 1..Len(calls) : ~IsSet(calls[i]) /\ ~IsRead(calls[i])

\* nFrames is an int with 1 <= nFrames <= totalFrames.
ValidNFrames == nFrames.isInt /\ nFrames.twice >= 2 /\ nFrames.twice <= 2 * frameCount

\* The float position of sample k (from 0), computed as makeBarcode does,
\* from the frame count t and nFrames n alone.
RECURSIVE SamplePosition(_, _, _)
SamplePosition(t, n, k) ==
  IF k = 0 THEN FloatHalf(FloatDiv(t, n))
  ELSE FloatAdd(SamplePosition(t, n, k - 1), FloatDiv(t, n))

\* The image assembled by the loop, in a returned result.
Assembled == IF result.kind = "filtered" THEN result.src ELSE result

(***************************************************************************)
(* C1.  The frame index sought in loop iteration k (k = 0..nFrames-1) is   *)
(* floor((2k+1) * totalFrames / (2 * nFrames)); the indices are strictly   *)
(* increasing and lie in [0, totalFrames).                                 *)
(***************************************************************************)
C1_SampleIndices ==
  ValidNFrames =>
    /\ \A k \in 1..Len(Seeks) :
         /\ Seeks[k][2] = ((2 * (k - 1) + 1) * frameCount) \div (2 * N)
         /\ Seeks[k][2] >= 0 /\ Seeks[k][2] < frameCount
    /\ \A k \in 1..(Len(Seeks) - 1) : Seeks[k][2] < Seeks[k + 1][2]

(***************************************************************************)
(* C2.  The output grows by one slice per iteration, appended on the       *)
(* right in sampling order: after j iterations it holds the resized frames *)
(* of samples 0..j-1 left to right, j * width columns of the resolved      *)
(* height; the returned image is nFrames * width wide.                     *)
(***************************************************************************)
ResolvedHeight == IF ProbeDone THEN frameHeight ELSE ValueOf(height)

C2_OutputGrowth ==
  /\ pc \in {"loop", "read", "blur", "returned"} =>
       IF completedFrames = 0
       THEN output = NoImage
       ELSE /\ output.kind = "image"
            /\ output.h = ResolvedHeight
            /\ output.cols = [p \in 1..(completedFrames * width) |->
                                <<Seeks[((p - 1) \div width) + 1][2], ((p - 1) % width) + 1>>]
  /\ pc = "returned" =>
       /\ Len(Assembled.cols) = N * width
       /\ Assembled.h = ResolvedHeight
       /\ Assembled = output

C2_Witness ==
  pc = "returned" /\ N >= 3 /\ width >= 2 /\ ProbeDone /\ Len(output.cols) = N * width

(***************************************************************************)
(* C3.  An int nFrames greater than the total frame count makes            *)
(* makeBarcode fail with ValueError before any seek or read, and no image  *)
(* is returned.                                                            *)
(***************************************************************************)
C3_ExceedingIsValueError ==
  (canOpen /\ nFrames.isInt /\ nFrames.twice > 2 * frameCount
     /\ pc \notin {"getVideoFile", "getInterval"}) =>
    /\ pc = "raised"
    /\ error.kind = "ValueError"
    /\ NoDecoding
    /\ result = NoImage

(***************************************************************************)
(* C4.  nFrames that is 0, negative or not an int makes makeBarcode fail   *)
(* with ValueError, with no seek and no read (the height probe included)   *)
(* on the opened video.                                                    *)
(***************************************************************************)
C4_InvalidIsValueError ==
  (canOpen /\ (nFrames.twice < 2 \/ ~nFrames.isInt)
     /\ pc \notin {"getVideoFile", "getInterval"}) =>
    /\ pc = "raised"
    /\ error.kind = "ValueError"
    /\ NoDecoding
    /\ result = NoImage

C4_Witness ==
  pc = "raised" /\ canOpen /\ ~nFrames.isInt /\ nFrames.twice = 5 /\ height = None

(***************************************************************************)
(* C5.  A failed read in the loop ends the run with an IOError carrying    *)
(* the truncated index of that frame and the total frame count; it is not  *)
(* retried, nothing is sought or read after it, and no image is returned:  *)
(* a returned image has all nFrames slices.                                *)
(***************************************************************************)
C5_DecodeFailureAborts ==
  /\ \A i \in 1..Len(calls) :
       (IsRead(calls[i]) /\ ~calls[i][3]) =>
         /\ i = Len(calls)
         /\ pc = "raised"
         /\ error.kind = "IOError"
         /\ result = NoImage
         /\ i >= FirstSet =>
              /\ error.frame = Some(calls[i][2])
              /\ error.frame = Some(Seeks[Len(Seeks)][2])
              /\ error.total = Some(frameCount)
  /\ result # NoImage =>
       /\ pc = "returned"
       /\ Len(Assembled.cols) = N * width
       /\ Len(LoopReads) = N
       /\ \A i \in 1..Len(calls) : IsRead(calls[i]) => calls[i][3]

C5_Witness ==
  /\ pc = "raised" /\ error.kind = "IOError" /\ error.frame # None
  /\ completedFrames >= 1 /\ completedFrames < N /\ output # NoImage

(***************************************************************************)
(* C6.  Once opened, the video handle is released on every exit path: a    *)
(* terminated run never leaves it open.                                    *)
(***************************************************************************)
C6_ReleasedOnEveryExit == Terminated => ~opened

(***************************************************************************)
(* C7.  A source that does not open makes makeBarcode fail with            *)
(* FileNotFoundError at once, whatever the other arguments: the frame      *)
(* count is not queried, nFrames is not validated, nothing is sought or    *)
(* read.                                                                   *)
(***************************************************************************)
C7_NotFoundFirst ==
  (~canOpen /\ pc # "getVideoFile") =>
    /\ pc = "raised"
    /\ error.kind = "FileNotFoundError"
    /\ calls = <<>>
    /\ totalFrames = None /\ interval = None
    /\ ~opened
    /\ result = NoImage

C7_Witness ==
  pc = "raised" /\ ~canOpen /\ nFrames.twice < 2 /\ error.kind = "FileNotFoundError"

(***************************************************************************)
(* C8.  With blur = 0 the assembled image is returned unchanged; with      *)
(* blur = k > 0 the result is the assembled image filtered with the k x k  *)
(* kernel that is zero except column floor((k-1)/2), whose entries are     *)
(* 1/k, so that the kernel sums to 1.                                      *)
(***************************************************************************)
BlurKernel(k) ==
  [r \in 1..k |-> [c \in 1..k |-> IF c - 1 = (k - 1) \div 2 THEN <<1, k>> ELSE <<0, k>>]]

RECURSIVE SumNumerators(_, _)
SumNumerators(row, c) == IF c = 0 THEN 0 ELSE row[c][1] + SumNumerators(row, c - 1)

RECURSIVE KernelNumerators(_, _)
KernelNumerators(kernel, r) ==
  IF r = 0 THEN 0
  ELSE SumNumerators(kernel[r], Len(kernel[r])) + KernelNumerators(kernel, r - 1)

C8_Blur ==
  pc = "returned" =>
    IF blur = 0
    THEN result = output /\ result.kind = "image"
    ELSE /\ result = Filter2D(output, BlurKernel(blur))
         /\ Len(result.kernel) = blur
         /\ \A r \in 1..blur : \A c \in 1..blur : result.kernel[r][c][2] = blur
         /\ KernelNumerators(result.kernel, blur) = blur

C8_Witness == pc = "returned" /\ blur = 2 /\ result.kind = "filtered"

(***************************************************************************)
(* C9.  The height probe does not change which frames the loop decodes:    *)
(* the indices read by the loop are those of the sample positions, which   *)
(* depend on the frame count and nFrames only, and the first is the        *)
(* truncation of interval / 2, whatever the probe did to the cursor.       *)
(***************************************************************************)
C9_ProbeIndependent ==
  /\ \A k \in 1..Len(LoopReads) :
       LoopReads[k][2] = FloatToInt(SamplePosition(frameCount, N, k - 1))
  /\ Len(LoopReads) >= 1 =>
       LoopReads[1][2] = FloatToInt(FloatHalf(FloatDiv(frameCount, N)))

C9_Witness ==
  ProbeDone /\ Len(LoopReads) >= 2 /\ LoopReads[1][2] # 1 /\ LoopReads[1][3]

(***************************************************************************)
(* C10.  For valid nFrames and readable samples the loop ends after        *)
(* exactly nFrames iterations: completedFrames counts them from 0 to       *)
(* nFrames and never passes it, each iteration is one seek followed at     *)
(* once by one read, and the handle is released only after the last read.  *)
(***************************************************************************)
C10_LoopShape ==
  /\ ~ValidNFrames => Seeks = <<>>
  /\ pc \in {"loop", "read", "blur", "returned"} =>
       /\ completedFrames \in 0..N
       /\ Len(Seeks) = completedFrames + (IF pc = "read" THEN 1 ELSE 0)
  /\ ValidNFrames => Len(Seeks) <= N
  /\ \A i \in 1..Len(LoopCalls) :
       /\ IsSet(LoopCalls[i]) =>
            /\ i % 2 = 1
            /\ i < Len(LoopCalls) => IsRead(LoopCalls[i + 1])
            /\ i = Len(LoopCalls) => pc = "read"
       /\ IsRead(LoopCalls[i]) =>
            /\ i % 2 = 0
            /\ LoopCalls[i][2] = LoopCalls[i - 1][2]
       /\ IsRelease(LoopCalls[i]) =>
            /\ i = Len(LoopCalls)
            /\ i = 2 * N + 1
            /\ completedFrames = N
  /\ pc \in {"blur", "returned"} =>
       /\ completedFrames = N
       /\ Len(LoopCalls) = 2 * N + 1
       /\ IsRelease(LoopCalls[2 * N + 1])

C10_LoopTerminates ==
  /\ []C10_LoopShape
  /\ (pc = "loop" /\ completedFrames = 0)
       ~> \/ pc = "raised" /\ Len(LoopReads) >= 1 /\ ~LoopReads[Len(LoopReads)][3]
          \/ pc = "returned" /\ completedFrames = N /\ Len(LoopReads) = N

C10_Witness ==
  /\ pc = "returned" /\ N = 5 /\ frameCount = 100
  /\ Seeks = <<<<"set", 10>>, <<"set", 30>>, <<"set", 50>>, <<"set", 70>>, <<"set", 90>>>>

====
